---- MODULE Spec2Model ----
(***************************************************************************)
(* Model of the client-side stores of the account/profile surface:         *)
(*   - the profiles store (src/src/stores/profilesStore.ts) with its       *)
(*     localStorage adapter (storageKey / loadFromStorage / saveToStorage),*)
(*   - the auth store (src/unnamed/part_002, stores/authStore).            *)
(* JavaScript values are modelled as follows: strings are strings; null is *)
(* Null and undefined is Undef; an object is a function from its present   *)
(* keys to their values; ISO timestamps are the clock readings (integers,  *)
(* toISOString is order preserving); a localStorage item is modelled by    *)
(* what JSON.parse makes of it.                                            *)
(***************************************************************************)
EXTENDS Integers, Sequences, FiniteSets, Bags, TLC

(* ------------------------------ bounds --------------------------------- *)

\* The clock readings Date.now() can return are 0..MaxClock.
MaxClock == 1
\* addProfile is offered while the collection holds fewer than MaxProfiles
\* profiles (one more in SelectionSpec).
MaxProfiles == 2
\* At most MaxCalls calls of the auth store's actions are in flight at a time.
MaxCalls == 2

(* ------------------------------ values --------------------------------- *)

Null == "null"
Undef == "undefined"

\* Account ids the presentation layer passes as userId.
Users == {"acct-1", "acct-2"}

\* The outcomes of Math.random().toString(36).slice(2, 8) that are told apart.
RandomSuffixes == {"a", "b"}

\* An id no profile was ever created with (a stale pickedId, a typo).
StaleId == "stale"

\* Keys of a MemberProfile whose values are strings (or undefined).
StringFields == {"id", "accountId", "roleType", "firstName", "lastName", "licenseNumber"}

Get(obj, f) == IF f \in DOMAIN obj THEN obj[f] ELSE Undef

\* { ...a, ...b }
Spread(a, b) == [f \in (DOMAIN a) \cup (DOMAIN b) |-> IF f \in DOMAIN b THEN b[f] ELSE a[f]]

(* ------------------------- persistence adapter ------------------------- *)

storageKey(userId) == "profiles:" \o userId

StorageKeys == {storageKey(u) : u \in Users}

\* localStorage items, by what getItem and JSON.parse make of them.
RawNone == [kind |-> "none"]        \* no item: getItem returns null
RawEmpty == [kind |-> "empty"]      \* the empty string
RawGarbage == [kind |-> "garbage"]  \* not JSON
RawJsonNull == [kind |-> "null"]    \* the JSON text null
RawNoArray == [kind |-> "noarray"]  \* a JSON object whose profiles is no array

\* JSON.stringify leaves out the keys whose value is undefined.
DropUndefined(obj) ==
  [f \in {g \in DOMAIN obj : ~(g \in StringFields /\ obj[g] = Undef)} |-> obj[f]]

JsonStringify(payload) ==
  [kind |-> "snapshot",
   value |-> [profiles |-> [i \in 1..Len(payload.profiles) |-> DropUndefined(payload.profiles[i])],
              currentProfileId |-> payload.currentProfileId,
              updatedAt |-> payload.updatedAt]]

\* JSON.parse: throws on text that is not JSON.
JsonParse(raw) ==
  [threw |-> raw.kind = "garbage",
   isNull |-> raw.kind = "null",
   profilesIsArray |-> raw.kind = "snapshot"]

AbsentResult == [raised |-> FALSE, isNull |-> TRUE]

\* loadFromStorage without its try/catch.
LoadNoCatch(st, userId) ==
  LET raw == st[storageKey(userId)] IN
  IF raw.kind \in {"none", "empty"} THEN AbsentResult
  ELSE LET parsed == JsonParse(raw) IN
       IF parsed.threw THEN [raised |-> TRUE, isNull |-> TRUE]
       ELSE IF parsed.isNull \/ ~parsed.profilesIsArray THEN AbsentResult
       ELSE [raised |-> FALSE, isNull |-> FALSE, value |-> raw.value]

\* loadFromStorage(userId) on the storage st: the snapshot, or null.
loadFromStorage(st, userId) ==
  LET raw == st[storageKey(userId)] IN
  IF raw.kind \in {"none", "empty"} THEN AbsentResult
  ELSE LET parsed == JsonParse(raw) IN
       IF parsed.threw THEN AbsentResult
       ELSE IF parsed.isNull \/ ~parsed.profilesIsArray THEN AbsentResult
       ELSE [raised |-> FALSE, isNull |-> FALSE, value |-> raw.value]

\* saveToStorage losing the item when the write fails.
SaveClearsOnFailure(st, userId, payload, ok) ==
  IF ok THEN [st EXCEPT ![storageKey(userId)] = JsonStringify(payload)]
  ELSE [st EXCEPT ![storageKey(userId)] = RawNone]

\* saveToStorage writing every account's item.
SaveUnderEveryKey(st, userId, payload, ok) ==
  IF ok THEN [k \in DOMAIN st |-> JsonStringify(payload)] ELSE st

\* saveToStorage(userId, payload); ok is whether setItem went through (it
\* throws on quota, and the catch drops the write).
saveToStorage(st, userId, payload, ok) ==
  IF ok THEN [st EXCEPT ![storageKey(userId)] = JsonStringify(payload)] ELSE st

GetItem(userId) == [call |-> "getItem", key |-> storageKey(userId), ok |-> TRUE]
SetItem(userId, ok) == [call |-> "setItem", key |-> storageKey(userId), ok |-> ok]

(* ----------------------------- auth values ----------------------------- *)

\* null where an object is expected (session, user, account, a row).
NullObject == [null |-> TRUE]

\* !!v
Truthy(v) == v \notin {Undef, Null, ""}

\* v ?? d
Coalesce(v, d) == IF v \in {Undef, Null} THEN d ELSE v

\* Supabase Auth users: one with an email, one without (User.email is optional).
\* The first one's id is also the id of its accounts row (the common schema),
\* and so a user id the profiles store is called with.
UserA == [id |-> "acct-1", email |-> "a@pharmacy.test"]
UserB == [id |-> "user-2"]

AuthUsers == {UserA, UserB}

SessionOf(u) == [access_token |-> "token-" \o u.id, user |-> u]

ProviderSessions == {SessionOf(u) : u \in AuthUsers}

\* The emails login is called with.
Emails == {"a@pharmacy.test"}

\* Rows of public.accounts: one keyed by the auth user's id, one linked by
\* user_id with optional columns unset, one linked by email only.
RowById ==
  [id |-> "acct-1", email |-> "a@pharmacy.test", pharmacy_name |-> "Main St Rx",
   pharmacy_phone |-> "555-0100", subscription_status |-> "active",
   created_at |-> "2024-01-01", updated_at |-> "2024-02-01", address1 |-> "1 Main St",
   city |-> "Salem", state |-> "OR", zipcode |-> "97301"]

RowByUserId ==
  [id |-> "acct-2", user_id |-> "user-2", email |-> "b@pharmacy.test",
   pharmacy_name |-> "Elm St Rx", subscription_status |-> "", created_at |-> "2024-01-01"]

RowByEmail ==
  [id |-> "acct-9", email |-> "a@pharmacy.test", pharmacy_name |-> "Oak St Rx",
   pharmacy_phone |-> Null, subscription_status |-> "inactive", created_at |-> "2024-01-01"]

AccountRows == {RowById, RowByUserId, RowByEmail}

mapRowToAccount(row) ==
  [id |-> Get(row, "id"),
   email |-> Get(row, "email"),
   pharmacyName |-> Get(row, "pharmacy_name"),
   pharmacyPhone |-> Coalesce(Get(row, "pharmacy_phone"), Null),
   subscriptionStatus |->
     IF Truthy(Get(row, "subscription_status")) THEN Get(row, "subscription_status")
     ELSE "inactive",
   createdAt |-> Get(row, "created_at"),
   updatedAt |-> Coalesce(Get(row, "updated_at"), Null),
   address1 |-> Coalesce(Get(row, "address1"), Null),
   city |-> Coalesce(Get(row, "city"), Null),
   state |-> Coalesce(Get(row, "state"), Null),
   zipcode |-> Coalesce(Get(row, "zipcode"), Null)]

\* The changes the account page passes to updateAccount.
AccountChanges == {[pharmacyName |-> "Harbor Rx"]}

\* set({ session: null, user: null, account: null, isAuthenticated: false })
SignedOutKeepsFlag ==
  [session |-> NullObject, user |-> NullObject, account |-> NullObject,
   isAuthenticated |-> TRUE]

SignedOut ==
  [session |-> NullObject, user |-> NullObject, account |-> NullObject,
   isAuthenticated |-> FALSE]

\* set({ session, user, account: accountRow ? mapRowToAccount(accountRow) : null,
\*       isAuthenticated: true })
SignedInIfLinked(sess, usr, row) ==
  [session |-> sess, user |-> usr,
   account |-> IF row # NullObject THEN mapRowToAccount(row) ELSE NullObject,
   isAuthenticated |-> row # NullObject]

SignedIn(sess, usr, row) ==
  [session |-> sess, user |-> usr,
   account |-> IF row # NullObject THEN mapRowToAccount(row) ELSE NullObject,
   isAuthenticated |-> TRUE]

(* ------------------------------ state ---------------------------------- *)

VARIABLES
  profiles,          \* ProfilesState.profiles
  currentProfileId,  \* ProfilesState.currentProfileId
  loadedForUserId,   \* ProfilesState.loadedForUserId
  storage,           \* localStorage, the profiles:<userId> items
  now,               \* the latest clock reading
  io,                \* the localStorage calls the latest operation made
  last,              \* the latest operation: its name, arguments, result
  session,           \* AuthState.session
  user,              \* AuthState.user
  account,           \* AuthState.account
  isAuthenticated,   \* AuthState.isAuthenticated
  provider,          \* the session Supabase Auth holds for this browser
  accounts,          \* the rows of public.accounts
  calls,             \* the calls of the auth store's actions in flight (a bag)
  authLast,          \* the latest step of an auth store action
  ui                 \* the components rendered, with the dependencies their effects last ran with

storeVars == <<profiles, currentProfileId, loadedForUserId, storage, now, io, last>>

authVars == <<session, user, account, isAuthenticated, provider, accounts, calls, authLast>>

vars == <<profiles, currentProfileId, loadedForUserId, storage, now, io, last,
          session, user, account, isAuthenticated, provider, accounts, calls, authLast,
          ui>>

EmptySnapshotRaw ==
  [kind |-> "snapshot",
   value |-> [profiles |-> <<>>, currentProfileId |-> Null, updatedAt |-> 0]]

InitRaws == {RawNone, RawEmpty, RawGarbage, RawJsonNull, RawNoArray, EmptySnapshotRaw}

Call(op, userId, id, ret, hit) ==
  [op |-> op, userId |-> userId, id |-> id, ret |-> ret, hit |-> hit,
   preLoaded |-> loadedForUserId, preCurrent |-> currentProfileId]

InitLast ==
  [op |-> "init", userId |-> Null, id |-> Null, ret |-> <<>>, hit |-> FALSE,
   preLoaded |-> Null, preCurrent |-> Null]

\* A call of an auth store action waiting at the await named pc, with its
\* locals: the session it got, the row findAccountRow returns, its argument.
InFlight(op, pc, sess, row, arg) ==
  [op |-> op, pc |-> pc, sess |-> sess, row |-> row, arg |-> arg]

\* What the call that stepped did: where it was, how it went on ("pending",
\* "return", "throw"), what it returned or threw, the row it had resolved.
Event(op, pc, outcome, ret, row) ==
  [op |-> op, pc |-> pc, outcome |-> outcome, ret |-> ret, row |-> row]

\* The auth store as created, the provider holding one of the sessions in P.
AuthInit(P) ==
  /\ session = NullObject
  /\ user = NullObject
  /\ account = NullObject
  /\ isAuthenticated = FALSE
  /\ provider \in P
  /\ accounts = AccountRows
  /\ calls = EmptyBag
  /\ authLast = Event("init", "init", "return", Undef, NullObject)

\* The profiles store as created, over the localStorage items in raws.
ProfilesInit(raws) ==
  /\ profiles = <<>>
  /\ currentProfileId = Null
  /\ loadedForUserId = Null
  /\ storage \in raws
  /\ now = 0
  /\ io = <<>>
  /\ last = InitLast

\* A component that is not rendered, and one that is, with the values of the
\* dependencies its effect last ran with (none before its first run).
Unmounted == [mounted |-> FALSE]

Mounted(deps) == [mounted |-> TRUE, deps |-> deps]

\* The page before anything of it is rendered: neither ProfileGate nor the
\* Account page's profile section (ProfilesTable with AddProfileModal).
NothingMounted == [gate |-> Unmounted, page |-> Unmounted]

\* Both stores as created, nobody signed in.
StoreInit(raws) == ProfilesInit(raws) /\ AuthInit({NullObject}) /\ ui = NothingMounted

Times == 0..MaxClock

(* --------------------------- profiles store ---------------------------- *)

\* ensureLoaded past its guard, starting empty on a miss without writing.
HydrateNoBaseline(userId, t, ok) ==
  LET persisted == loadFromStorage(storage, userId) IN
  IF ~persisted.isNull
  THEN /\ t = now /\ ok
       /\ profiles' = persisted.value.profiles
       /\ currentProfileId' = persisted.value.currentProfileId
       /\ loadedForUserId' = userId
       /\ io' = <<GetItem(userId)>>
       /\ last' = Call("ensureLoaded", userId, Null, <<>>, TRUE)
       /\ UNCHANGED <<storage, now>>
  ELSE /\ t = now /\ ok
       /\ profiles' = <<>>
       /\ currentProfileId' = Null
       /\ loadedForUserId' = userId
       /\ io' = <<GetItem(userId)>>
       /\ last' = Call("ensureLoaded", userId, Null, <<>>, FALSE)
       /\ UNCHANGED <<storage, now>>

\* ensureLoaded past its guard: read the account's item; on a hit take its
\* profiles and selection, on a miss start empty and write the empty baseline
\* (t is the reading of its updatedAt, ok whether the write goes through).
Hydrate(userId, t, ok) ==
  LET persisted == loadFromStorage(storage, userId) IN
  IF ~persisted.isNull
  THEN /\ t = now /\ ok
       /\ profiles' = persisted.value.profiles
       /\ currentProfileId' = persisted.value.currentProfileId
       /\ loadedForUserId' = userId
       /\ io' = <<GetItem(userId)>>
       /\ last' = Call("ensureLoaded", userId, Null, <<>>, TRUE)
       /\ UNCHANGED <<storage, now>>
  ELSE /\ t >= now
       /\ profiles' = <<>>
       /\ currentProfileId' = Null
       /\ loadedForUserId' = userId
       /\ storage' = saveToStorage(storage, userId,
                       [profiles |-> <<>>, currentProfileId |-> Null, updatedAt |-> t], ok)
       /\ now' = t
       /\ io' = <<GetItem(userId), SetItem(userId, ok)>>
       /\ last' = Call("ensureLoaded", userId, Null, <<>>, FALSE)

EnsureLoadedAlwaysReads(userId, t, ok) == Hydrate(userId, t, ok)

\* ensureLoaded(userId)
EnsureLoaded(userId, t, ok) ==
  IF loadedForUserId = userId
  THEN /\ t = now /\ ok
       /\ io' = <<>>
       /\ last' = Call("ensureLoaded", userId, Null, <<>>, FALSE)
       /\ UNCHANGED <<profiles, currentProfileId, loadedForUserId, storage, now>>
  ELSE Hydrate(userId, t, ok)

\* uid(): Date.now() in base 36, a dash, six random characters.
uid(t, r) == ToString(t) \o "-" \o r

\* What callers pass as data to addProfile.
BaseData == [roleType |-> "Pharmacy Technician", firstName |-> "Ada", lastName |-> "Lovelace"]

\* AddProfileModal's onSubmit passes accountId and the optional fields (undefined
\* when left empty).
FormData(u) == Spread(BaseData, [accountId |-> u, licenseNumber |-> Undef])

\* The data callers pass: the accountId is the caller's to fill in.
DataInputs == {FormData(u) : u \in Users}

\* What callers pass as changes to updateProfile.
LicenseChange == [licenseNumber |-> "TX-12345"]

ChangesInputs == {LicenseChange}

ProfileIds(ps) == {ps[i].id : i \in 1..Len(ps)}

\* The ids callers pass: of a profile on screen, or a stale one.
IdInputs == ProfileIds(profiles) \cup {StaleId}

\* The ids of the profiles on screen only.
ShownIds == ProfileIds(profiles)

\* setCurrentProfile saving the selection it replaces.
SetCurrentProfileSavesOld(profileId, t, ok) ==
  /\ currentProfileId' = profileId
  /\ IF loadedForUserId # Null
     THEN /\ t >= now
          /\ storage' = saveToStorage(storage, loadedForUserId,
                          [profiles |-> profiles, currentProfileId |-> currentProfileId,
                           updatedAt |-> t], ok)
          /\ now' = t
          /\ io' = <<SetItem(loadedForUserId, ok)>>
     ELSE /\ t = now /\ ok
          /\ io' = <<>>
          /\ UNCHANGED <<storage, now>>
  /\ last' = Call("setCurrentProfile", Null, profileId, <<>>, FALSE)
  /\ UNCHANGED <<profiles, loadedForUserId>>

\* setCurrentProfile(profileId)
SetCurrentProfile(profileId, t, ok) ==
  /\ currentProfileId' = profileId
  /\ IF loadedForUserId # Null
     THEN /\ t >= now
          /\ storage' = saveToStorage(storage, loadedForUserId,
                          [profiles |-> profiles, currentProfileId |-> profileId,
                           updatedAt |-> t], ok)
          /\ now' = t
          /\ io' = <<SetItem(loadedForUserId, ok)>>
     ELSE /\ t = now /\ ok
          /\ io' = <<>>
          /\ UNCHANGED <<storage, now>>
  /\ last' = Call("setCurrentProfile", Null, profileId, <<>>, FALSE)
  /\ UNCHANGED <<profiles, loadedForUserId>>

DefaultSelectionAlwaysNew(current, profile) == profile.id

\* currentProfileId ?? profile.id
DefaultSelection(current, profile) == IF current = Null THEN profile.id ELSE current

NewProfile(data, r, t1, t2, t3) ==
  Spread(Spread([id |-> uid(t1, r)], data), [createdAt |-> t2, updatedAt |-> t3])

\* addProfile(userId, data); t1..t4 are its four clock readings (uid, createdAt,
\* updatedAt, the snapshot's updatedAt).
AddProfile(userId, data, r, t1, t2, t3, t4, ok) ==
  /\ now <= t1 /\ t1 <= t2 /\ t2 <= t3 /\ t3 <= t4
  /\ LET profile == NewProfile(data, r, t1, t2, t3)
         next == Append(profiles, profile)
         cur == DefaultSelection(currentProfileId, profile)
     IN /\ profiles' = next
        /\ currentProfileId' = cur
        /\ loadedForUserId' = userId
        /\ storage' = saveToStorage(storage, userId,
                        [profiles |-> next, currentProfileId |-> cur, updatedAt |-> t4], ok)
        /\ last' = Call("addProfile", userId, Null, <<profile>>, FALSE)
  /\ now' = t4
  /\ io' = <<SetItem(userId, ok)>>

\* The clock reading before the i-th element of the map is visited.
PrevReading(ts, i) == IF i = 1 THEN now ELSE ts[i - 1]

\* profiles.map(...): the clock is read once for every profile that matches.
MapReadings(id, T) ==
  {ts \in [1..Len(profiles) -> T] :
     \A i \in 1..Len(profiles) :
       /\ ts[i] >= PrevReading(ts, i)
       /\ profiles[i].id # id => ts[i] = PrevReading(ts, i)}

UpdatedKeepsStamp(p, changes, t) == Spread(p, changes)

\* The changes taking the place of the profile instead of being merged.
UpdatedReplaces(p, changes, t) == Spread([id |-> p.id], Spread(changes, [updatedAt |-> t]))

\* { ...p, ...changes, updatedAt: new Date().toISOString() }
Updated(p, changes, t) == Spread(Spread(p, changes), [updatedAt |-> t])

\* updateProfile(userId, id, changes); tS is the reading of the snapshot's updatedAt.
UpdateProfile(userId, id, changes, ts, tS, ok) ==
  /\ ts \in MapReadings(id, Times)
  /\ tS >= PrevReading(ts, Len(profiles) + 1)
  /\ LET next == [i \in 1..Len(profiles) |->
                    IF profiles[i].id = id THEN Updated(profiles[i], changes, ts[i])
                    ELSE profiles[i]]
     IN /\ profiles' = next
        /\ storage' = saveToStorage(storage, userId,
                        [profiles |-> next, currentProfileId |-> currentProfileId,
                         updatedAt |-> tS], ok)
        /\ last' = Call("updateProfile", userId, id, <<>>, id \in ProfileIds(profiles))
  /\ now' = tS
  /\ io' = <<SetItem(userId, ok)>>
  /\ UNCHANGED <<currentProfileId, loadedForUserId>>

KeepsId(p, id) == p.id # id

LastIdOrNull(next) == IF Len(next) > 0 THEN next[Len(next)].id ELSE Null

\* next[0]?.id ?? null
FirstIdOrNull(next) == IF Len(next) > 0 THEN next[1].id ELSE Null

\* removeProfile(userId, id)
RemoveProfile(userId, id, t, ok) ==
  /\ t >= now
  /\ LET next == SelectSeq(profiles, LAMBDA p : KeepsId(p, id))
         nextCurrent == IF currentProfileId = id THEN FirstIdOrNull(next) ELSE currentProfileId
     IN /\ profiles' = next
        /\ currentProfileId' = nextCurrent
        /\ storage' = saveToStorage(storage, userId,
                        [profiles |-> next, currentProfileId |-> nextCurrent,
                         updatedAt |-> t], ok)
        /\ last' = Call("removeProfile", userId, id, <<>>, id \in ProfileIds(profiles))
  /\ now' = t
  /\ io' = <<SetItem(userId, ok)>>
  /\ UNCHANGED loadedForUserId

\* reset() leaving loadedForUserId as it is.
ResetKeepsLoaded ==
  /\ profiles' = <<>>
  /\ currentProfileId' = Null
  /\ io' = <<>>
  /\ last' = Call("reset", Null, Null, <<>>, FALSE)
  /\ UNCHANGED <<loadedForUserId, storage, now>>

\* reset()
Reset ==
  /\ profiles' = <<>>
  /\ currentProfileId' = Null
  /\ loadedForUserId' = Null
  /\ io' = <<>>
  /\ last' = Call("reset", Null, Null, <<>>, FALSE)
  /\ UNCHANGED <<storage, now>>

\* The store's operations, called with account ids in U, data in D, random
\* suffixes in R, changes in C, clock readings in T, write outcomes in W, and ids from the
\* shown profiles and X; addProfile is offered while fewer than N profiles are held.
StoreNext(U, D, C, R, T, W, X, N) ==
  \/ \E userId \in U, t \in T, ok \in W :
       EnsureLoaded(userId, t, ok) /\ UNCHANGED <<authVars, ui>>
  \/ \E profileId \in ShownIds \cup X \cup {Null}, t \in T, ok \in W :
       SetCurrentProfile(profileId, t, ok) /\ UNCHANGED <<authVars, ui>>
  \/ \E userId \in U, data \in D, r \in R, t1 \in T, t2 \in T, t3 \in T, t4 \in T, ok \in W :
       /\ Len(profiles) < N
       /\ AddProfile(userId, data, r, t1, t2, t3, t4, ok)
       /\ UNCHANGED <<authVars, ui>>
  \/ \E userId \in U, id \in ShownIds \cup X, changes \in C,
        ts \in [1..Len(profiles) -> T], tS \in T, ok \in W :
       UpdateProfile(userId, id, changes, ts, tS, ok) /\ UNCHANGED <<authVars, ui>>
  \/ \E userId \in U, id \in ShownIds \cup X, t \in T, ok \in W :
       RemoveProfile(userId, id, t, ok) /\ UNCHANGED <<authVars, ui>>
  \/ Reset /\ UNCHANGED <<authVars, ui>>

\* Two accounts on one browser, all within one clock reading: every operation
\* may be called for either account, whichever is loaded.
Init == StoreInit([StorageKeys -> {RawNone, EmptySnapshotRaw}])

Next == StoreNext(Users, {BaseData}, {LicenseChange}, RandomSuffixes, {0}, {TRUE}, {}, MaxProfiles)

Spec == Init /\ [][Next]_vars

\* One account with a longer collection: adding, selecting, removing.
SelectionNext ==
  StoreNext({"acct-1"}, {BaseData}, {LicenseChange}, RandomSuffixes \cup {"c"}, {0}, {TRUE},
            {StaleId}, MaxProfiles + 1)

SelectionSpec == Init /\ [][SelectionNext]_vars

\* One account in detail: malformed items, the clock advancing between any two
\* readings, the data callers pass.
SessionInit ==
  StoreInit({st \in [StorageKeys -> InitRaws] : st[storageKey("acct-2")] = RawNone})

SessionNext ==
  StoreNext({"acct-1"}, DataInputs, ChangesInputs, {"a"}, Times, {TRUE}, {}, MaxProfiles)

SessionSpec == SessionInit /\ [][SessionNext]_vars

\* One account whose writes may fail (quota, storage switched off), over any
\* item.
FailNext ==
  StoreNext({"acct-1"}, {BaseData}, {LicenseChange}, RandomSuffixes, {0}, BOOLEAN, {}, MaxProfiles)

FailSpec == SessionInit /\ [][FailNext]_vars

\* Two accounts on one browser, every write going through,
\* the callers passing the loaded account: ensureLoaded for either account,
\* setCurrentProfile, and addProfile, updateProfile and removeProfile called
\* with loadedForUserId.
OwnAccountNext ==
  \/ \E userId \in Users : EnsureLoaded(userId, now, TRUE) /\ UNCHANGED <<authVars, ui>>
  \/ \E profileId \in ShownIds \cup {Null} :
       SetCurrentProfile(profileId, now, TRUE) /\ UNCHANGED <<authVars, ui>>
  \/ \E r \in RandomSuffixes :
       /\ loadedForUserId # Null
       /\ Len(profiles) < MaxProfiles
       /\ AddProfile(loadedForUserId, FormData(loadedForUserId), r, now, now, now, now, TRUE)
       /\ UNCHANGED <<authVars, ui>>
  \/ \E id \in ShownIds, changes \in ChangesInputs :
       /\ loadedForUserId # Null
       /\ UpdateProfile(loadedForUserId, id, changes, [i \in 1..Len(profiles) |-> now], now, TRUE)
       /\ UNCHANGED <<authVars, ui>>
  \/ \E id \in ShownIds :
       /\ loadedForUserId # Null
       /\ RemoveProfile(loadedForUserId, id, now, TRUE)
       /\ UNCHANGED <<authVars, ui>>

\* Each account starts with no item, an item that is not JSON, or a snapshot.
OwnAccountInit == StoreInit([StorageKeys -> {RawNone, RawGarbage, EmptySnapshotRaw}])

OwnAccountSpec == OwnAccountInit /\ [][OwnAccountNext]_vars

\* Two accounts sharing one browser, neither bound to the loaded collection:
\* as AddProfileModal does, a caller passes its own account id both as userId
\* and as the accountId of the new profile, but the store takes the call
\* whichever account is loaded, or none.
SharedBrowserNext ==
  \/ \E userId \in Users : EnsureLoaded(userId, now, TRUE) /\ UNCHANGED <<authVars, ui>>
  \/ \E profileId \in ShownIds \cup {Null} :
       SetCurrentProfile(profileId, now, TRUE) /\ UNCHANGED <<authVars, ui>>
  \/ \E userId \in Users, r \in RandomSuffixes :
       /\ Len(profiles) < MaxProfiles
       /\ AddProfile(userId, FormData(userId), r, now, now, now, now, TRUE)
       /\ UNCHANGED <<authVars, ui>>
  \/ \E userId \in Users, id \in ShownIds, changes \in ChangesInputs :
       /\ UpdateProfile(userId, id, changes, [i \in 1..Len(profiles) |-> now], now, TRUE)
       /\ UNCHANGED <<authVars, ui>>
  \/ \E userId \in Users, id \in ShownIds \cup {StaleId} :
       RemoveProfile(userId, id, now, TRUE) /\ UNCHANGED <<authVars, ui>>
  \/ Reset /\ UNCHANGED <<authVars, ui>>

SharedBrowserSpec == Init /\ [][SharedBrowserNext]_vars

(* ------------------- the persistence adapter on its own ---------------- *)

\* Profiles as the store builds them: from the form (an optional field left
\* undefined), and from the required fields only, then edited.
TestProfiles ==
  {NewProfile(FormData("acct-1"), "a", 0, 0, 0),
   Updated(NewProfile(BaseData, "b", 0, 0, 0), LicenseChange, MaxClock)}

SeqsUpTo(S, n) == UNION {[1..k -> S] : k \in 0..n}

\* Valid snapshots (PersistedProfiles).
TestSnapshots ==
  {[profiles |-> ps, currentProfileId |-> ct[1], updatedAt |-> ct[2]] :
     ps \in SeqsUpTo(TestProfiles, MaxProfiles), ct \in {<<Null, 0>>, <<uid(0, "a"), MaxClock>>}}

\* The snapshots saved for an account: any for the first, short ones for the
\* second.
SnapshotsFor(userId) ==
  IF userId = "acct-1" THEN TestSnapshots
  ELSE {S \in TestSnapshots : Len(S.profiles) <= 1 /\ S.currentProfileId = Null /\ S.updatedAt = 0}

\* saveToStorage(userId, payload)
AdapterSave(userId, payload, ok) ==
  /\ storage' = saveToStorage(storage, userId, payload, ok)
  /\ io' = <<SetItem(userId, ok)>>
  /\ last' = [op |-> "save", userId |-> userId, payload |-> payload, ok |-> ok]
  /\ UNCHANGED <<profiles, currentProfileId, loadedForUserId, now>>
  /\ UNCHANGED <<authVars, ui>>

\* loadFromStorage(userId)
AdapterLoad(userId) ==
  /\ io' = <<GetItem(userId)>>
  /\ last' = [op |-> "load", userId |-> userId, result |-> loadFromStorage(storage, userId)]
  /\ UNCHANGED <<profiles, currentProfileId, loadedForUserId, storage, now>>
  /\ UNCHANGED <<authVars, ui>>

AdapterNext ==
  \/ \E userId \in Users, ok \in BOOLEAN :
       \E payload \in SnapshotsFor(userId) : AdapterSave(userId, payload, ok)
  \/ \E userId \in Users : AdapterLoad(userId)

AdapterSpec == StoreInit([StorageKeys -> InitRaws]) /\ [][AdapterNext]_vars

(* ------------------------------ auth store ----------------------------- *)

\* set(partial): the store's state after session, user, account and
\* isAuthenticated are replaced together.
SetState(st) ==
  /\ session' = st.session
  /\ user' = st.user
  /\ account' = st.account
  /\ isAuthenticated' = st.isAuthenticated

\* Another call may begin.
Room == BagCardinality(calls) < MaxCalls

\* A call begins, waiting at its first await.
Start(op, pc, arg) ==
  calls' = calls (+) SetToBag({InFlight(op, pc, NullObject, NullObject, arg)})

\* The call c goes on to its next await.
Move(c, pc, sess, row) ==
  calls' = (calls (-) SetToBag({c}))
             (+) SetToBag({[c EXCEPT !.pc = pc, !.sess = sess, !.row = row]})

\* The call c is over.
Finish(c) == calls' = calls (-) SetToBag({c})

\* The rows .eq(col, val) selects.
Matches(col, val) == {r \in accounts : Get(r, col) = val}

\* What a lookup .from('accounts').select('*').eq(col, val).limit(1) comes
\* back with: an exception, a returned error, no visible row, or one of the
\* matching rows.
LookupOutcomes(col, val) ==
  {[kind |-> "raise", rows |-> <<>>], [kind |-> "error", rows |-> <<>>],
   [kind |-> "rows", rows |-> <<>>]}
    \cup {[kind |-> "rows", rows |-> <<r>>] : r \in Matches(col, val)}

\* !err && data && data.length > 0
Found(o) == o.kind = "rows" /\ Len(o.rows) > 0

\* One lookup of findAccountRow came back: an exception ends the search with
\* null, a row ends it with that row, anything else goes on to the next
\* lookup (next = "set" when none is left).
AfterLookup(c, o, next) ==
  /\ IF o.kind = "raise" THEN Move(c, "set", c.sess, NullObject)
     ELSE IF Found(o) THEN Move(c, "set", c.sess, o.rows[1])
     ELSE Move(c, next, c.sess, NullObject)
  /\ authLast' = Event(c.op, c.pc, "pending", Undef, NullObject)
  /\ UNCHANGED <<session, user, account, isAuthenticated, provider, accounts>>
  /\ UNCHANGED <<storeVars, ui>>

\* findAccountRow: accounts.id == user.id
FindById(c) ==
  /\ c.op \in {"checkSession", "login"}
  /\ c.pc = "byId"
  /\ \E o \in LookupOutcomes("id", c.sess.user.id) : AfterLookup(c, o, "byUserId")

\* findAccountRow: accounts.user_id == user.id; then if (user.email)
FindByUserId(c) ==
  /\ c.op \in {"checkSession", "login"}
  /\ c.pc = "byUserId"
  /\ \E o \in LookupOutcomes("user_id", c.sess.user.id) :
       AfterLookup(c, o, IF Truthy(Get(c.sess.user, "email")) THEN "byEmail" ELSE "set")

\* findAccountRow: accounts.email == user.email
FindByEmail(c) ==
  /\ c.op \in {"checkSession", "login"}
  /\ c.pc = "byEmail"
  /\ \E o \in LookupOutcomes("email", c.sess.user.email) : AfterLookup(c, o, "set")

\* checkSession() is called: supabase.auth.getSession() is awaited.
CheckSession ==
  /\ Room
  /\ Start("checkSession", "getSession", Undef)
  /\ authLast' = Event("checkSession", "call", "pending", Undef, NullObject)
  /\ UNCHANGED <<session, user, account, isAuthenticated, provider, accounts>>
  /\ UNCHANGED <<storeVars, ui>>

\* getSession() resolved: without a session the store is cleared and the call
\* is over, with one findAccountRow(session.user) is awaited.
GetSessionReturns(c) ==
  /\ c.op = "checkSession"
  /\ c.pc = "getSession"
  /\ IF provider = NullObject
       THEN /\ SetState(SignedOut)
            /\ Finish(c)
            /\ authLast' = Event("checkSession", "getSession", "return", Undef, NullObject)
       ELSE /\ Move(c, "byId", provider, NullObject)
            /\ authLast' = Event("checkSession", "getSession", "pending", Undef, NullObject)
            /\ UNCHANGED <<session, user, account, isAuthenticated>>
  /\ UNCHANGED <<provider, accounts>>
  /\ UNCHANGED <<storeVars, ui>>

\* findAccountRow resolved in checkSession: the final set.
CheckSessionSet(c) ==
  /\ c.op = "checkSession"
  /\ c.pc = "set"
  /\ SetState(SignedIn(c.sess, c.sess.user, c.row))
  /\ Finish(c)
  /\ authLast' = Event("checkSession", "set", "return", Undef, c.row)
  /\ UNCHANGED <<provider, accounts>>
  /\ UNCHANGED <<storeVars, ui>>

\* login(email, password) is called: signInWithPassword is awaited.
Login(email) ==
  /\ Room
  /\ Start("login", "signIn", email)
  /\ authLast' = Event("login", "call", "pending", Undef, NullObject)
  /\ UNCHANGED <<session, user, account, isAuthenticated, provider, accounts>>
  /\ UNCHANGED <<storeVars, ui>>

\* What signInWithPassword comes back with: an error, a success without a
\* session, or the session of the user with that email.
SignInOutcomes(email) ==
  {[kind |-> "error", session |-> NullObject], [kind |-> "ok", session |-> NullObject]}
    \cup {[kind |-> "ok", session |-> s] :
            s \in {t \in ProviderSessions : Get(t.user, "email") = email}}

\* login carrying on after a provider error.
SignInErrorIgnored(o) == FALSE

\* if (error) throw error
SignInError(o) == o.kind = "error"

\* The event of a step, with what the awaited call came back with.
Got(e, kind) == Spread(e, [got |-> kind])

\* signInWithPassword resolved: an error is thrown on; without a session the
\* store is cleared and false returned; with one findAccountRow(data.user) is
\* awaited.
SignInReturns(c) ==
  /\ c.op = "login"
  /\ c.pc = "signIn"
  /\ \E o \in SignInOutcomes(c.arg) :
       IF SignInError(o)
         THEN /\ Finish(c)
              /\ authLast' = Got(Event("login", "signIn", "throw", "error", NullObject), o.kind)
              /\ UNCHANGED <<session, user, account, isAuthenticated, provider>>
       ELSE IF o.session = NullObject
         THEN /\ SetState(SignedOut)
              /\ Finish(c)
              /\ authLast' = Got(Event("login", "signIn", "return", FALSE, NullObject), o.kind)
              /\ UNCHANGED provider
       ELSE /\ provider' = o.session
            /\ Move(c, "byId", o.session, NullObject)
            /\ authLast' = Got(Event("login", "signIn", "pending", Undef, NullObject), o.kind)
            /\ UNCHANGED <<session, user, account, isAuthenticated>>
  /\ UNCHANGED accounts
  /\ UNCHANGED <<storeVars, ui>>

\* login dropping its result when the provider's session has ended meanwhile.
LoginSetUnlessSignedOut(c) ==
  /\ c.op = "login"
  /\ c.pc = "set"
  /\ IF provider = NullObject
       THEN UNCHANGED <<session, user, account, isAuthenticated>>
       ELSE SetState(SignedIn(c.sess, c.sess.user, c.row))
  /\ Finish(c)
  /\ authLast' = Event("login", "set", "return", TRUE, c.row)
  /\ UNCHANGED <<provider, accounts>>
  /\ UNCHANGED <<storeVars, ui>>

\* findAccountRow resolved in login: the final set, and true is returned.
LoginSet(c) ==
  /\ c.op = "login"
  /\ c.pc = "set"
  /\ SetState(SignedIn(c.sess, c.sess.user, c.row))
  /\ Finish(c)
  /\ authLast' = Event("login", "set", "return", TRUE, c.row)
  /\ UNCHANGED <<provider, accounts>>
  /\ UNCHANGED <<storeVars, ui>>

\* logout() is called: supabase.auth.signOut() is awaited.
Logout ==
  /\ Room
  /\ Start("logout", "signOut", Undef)
  /\ authLast' = Event("logout", "call", "pending", Undef, NullObject)
  /\ UNCHANGED <<session, user, account, isAuthenticated, provider, accounts>>
  /\ UNCHANGED <<storeVars, ui>>

\* How signOut() comes back: the session ended, an error returned (the
\* session stays), an exception raised.
SignOutOutcomes == {"ok", "error", "raise"}

\* signOut() settled: a raised exception leaves logout before its set,
\* anything else is followed by the set that clears the store.
SignOutReturns(c) ==
  /\ c.op = "logout"
  /\ c.pc = "signOut"
  /\ \E o \in SignOutOutcomes :
       IF o = "raise"
         THEN /\ Finish(c)
              /\ authLast' = Event("logout", "signOut", "throw", "error", NullObject)
              /\ UNCHANGED <<session, user, account, isAuthenticated, provider>>
         ELSE /\ provider' = IF o = "ok" THEN NullObject ELSE provider
              /\ SetState(SignedOut)
              /\ Finish(c)
              /\ authLast' = Event("logout", "signOut", "return", Undef, NullObject)
  /\ UNCHANGED accounts
  /\ UNCHANGED <<storeVars, ui>>

\* The patch updateAccount sends: the snake_case columns of the changes.
PatchOf(changes) ==
  [pharmacy_name |-> Get(changes, "pharmacyName"),
   pharmacy_phone |-> Get(changes, "pharmacyPhone"),
   subscription_status |-> Get(changes, "subscriptionStatus"),
   address1 |-> Get(changes, "address1"),
   city |-> Get(changes, "city"),
   state |-> Get(changes, "state"),
   zipcode |-> Get(changes, "zipcode"),
   email |-> Get(changes, "email")]

\* The identifier the update is filtered by: account.id, else user.id, else
\* user.email, else no filter.
UpdateTarget(u, a) ==
  IF Truthy(Get(a, "id")) THEN [col |-> "id", val |-> a.id]
  ELSE IF Truthy(Get(u, "id")) THEN [col |-> "id", val |-> u.id]
  ELSE IF Truthy(Get(u, "email")) THEN [col |-> "email", val |-> u.email]
  ELSE [col |-> Undef, val |-> Undef]

\* The row after the update: the columns the patch defines replaced.
ApplyPatch(row, patch) ==
  [f \in (DOMAIN row) \cup {g \in DOMAIN patch : patch[g] # Undef} |->
     IF f \in DOMAIN patch /\ patch[f] # Undef THEN patch[f] ELSE row[f]]

\* updateAccount without its account guard.
UpdateAccountUnloaded(changes) ==
  /\ Room
  /\ IF user = NullObject
       THEN /\ authLast' = Event("updateAccount", "call", "throw", "Not authenticated", NullObject)
            /\ UNCHANGED calls
     ELSE /\ Start("updateAccount", "update",
                   [target |-> UpdateTarget(user, account), patch |-> PatchOf(changes)])
          /\ authLast' = Event("updateAccount", "call", "pending", Undef, NullObject)
  /\ UNCHANGED <<session, user, account, isAuthenticated, provider, accounts>>
  /\ UNCHANGED <<storeVars, ui>>

\* updateAccount(changes) is called: it throws without a user or an account,
\* else the update is sent and awaited.
UpdateAccount(changes) ==
  /\ Room
  /\ IF user = NullObject
       THEN /\ authLast' = Event("updateAccount", "call", "throw", "Not authenticated", NullObject)
            /\ UNCHANGED calls
     ELSE IF account = NullObject
       THEN /\ authLast' = Event("updateAccount", "call", "throw", "Account not loaded", NullObject)
            /\ UNCHANGED calls
     ELSE /\ Start("updateAccount", "update",
                   [target |-> UpdateTarget(user, account), patch |-> PatchOf(changes)])
          /\ authLast' = Event("updateAccount", "call", "pending", Undef, NullObject)
  /\ UNCHANGED <<session, user, account, isAuthenticated, provider, accounts>>
  /\ UNCHANGED <<storeVars, ui>>

\* query.select().single() settled: an error (no row, several rows, a
\* refusal) is thrown on, else the updated row replaces account.
UpdateReturns(c) ==
  /\ c.op = "updateAccount"
  /\ c.pc = "update"
  /\ \/ /\ Finish(c)
        /\ authLast' = Event("updateAccount", "update", "throw", "error", NullObject)
        /\ UNCHANGED <<account, accounts>>
     \/ \E r \in Matches(c.arg.target.col, c.arg.target.val) :
          /\ Cardinality(Matches(c.arg.target.col, c.arg.target.val)) = 1
          /\ accounts' = (accounts \ {r}) \cup {ApplyPatch(r, c.arg.patch)}
          /\ account' = mapRowToAccount(ApplyPatch(r, c.arg.patch))
          /\ Finish(c)
          /\ authLast' = Event("updateAccount", "update", "return",
                               mapRowToAccount(ApplyPatch(r, c.arg.patch)),
                               ApplyPatch(r, c.arg.patch))
  /\ UNCHANGED <<session, user, isAuthenticated, provider>>
  /\ UNCHANGED <<storeVars, ui>>

\* The auth store's actions, called from anywhere at any time, each going on
\* whenever what it awaits settles.
AuthNext ==
  \/ CheckSession
  \/ \E c \in BagToSet(calls) : GetSessionReturns(c)
  \/ \E c \in BagToSet(calls) : CheckSessionSet(c)
  \/ \E email \in Emails : Login(email)
  \/ \E c \in BagToSet(calls) : SignInReturns(c)
  \/ \E c \in BagToSet(calls) : LoginSet(c)
  \/ \E c \in BagToSet(calls) : FindById(c)
  \/ \E c \in BagToSet(calls) : FindByUserId(c)
  \/ \E c \in BagToSet(calls) : FindByEmail(c)
  \/ Logout
  \/ \E c \in BagToSet(calls) : SignOutReturns(c)
  \/ \E changes \in AccountChanges : UpdateAccount(changes)
  \/ \E c \in BagToSet(calls) : UpdateReturns(c)

\* The browser may hold a session from an earlier visit.
AuthSpecInit ==
  /\ ProfilesInit({[k \in StorageKeys |-> RawNone]})
  /\ AuthInit({NullObject} \cup ProviderSessions)
  /\ ui = NothingMounted

AuthSpec == AuthSpecInit /\ [][AuthNext]_vars

\* ---------------------------------------------------------------------------
\* The presentation layer over both stores: ProfileGate, a utility a page may
\* or may not mount, and the Account page's profile section. React runs an
\* effect after the render in which one of its dependencies changed, and runs
\* the pending effects before it handles the next event.

\* account?.id
AccountId == IF account = NullObject THEN Undef ELSE Get(account, "id")

\* The dependencies of ProfileGate's effect and of the profile section's.
GateDeps == <<isAuthenticated, AccountId>>

PageDeps == <<AccountId>>

GatePending == ui.gate.mounted /\ ui.gate.deps # GateDeps

PagePending == ui.page.mounted /\ ui.page.deps # PageDeps

\* No effect is waiting to run: the next event can be handled.
EffectsFlushed == ~GatePending /\ ~PagePending

\* A page that renders ProfileGate is shown, or left.
MountGate ==
  /\ EffectsFlushed
  /\ ~ui.gate.mounted
  /\ ui' = [ui EXCEPT !.gate = Mounted(<<>>)]
  /\ UNCHANGED <<storeVars, authVars>>

UnmountGate ==
  /\ EffectsFlushed
  /\ ui.gate.mounted
  /\ ui' = [ui EXCEPT !.gate = Unmounted]
  /\ UNCHANGED <<storeVars, authVars>>

\* ProfileGate's effect: load the account's profiles while signed in with an
\* account, reset the profiles store otherwise.
GateEffect ==
  /\ GatePending
  /\ IF isAuthenticated /\ Truthy(AccountId)
       THEN EnsureLoaded(AccountId, now, TRUE)
       ELSE Reset
  /\ ui' = [ui EXCEPT !.gate = Mounted(GateDeps)]
  /\ UNCHANGED authVars

\* The Account page is shown, or left.
MountPage ==
  /\ EffectsFlushed
  /\ ~ui.page.mounted
  /\ ui' = [ui EXCEPT !.page = Mounted(<<>>)]
  /\ UNCHANGED <<storeVars, authVars>>

UnmountPage ==
  /\ EffectsFlushed
  /\ ui.page.mounted
  /\ ui' = [ui EXCEPT !.page = Unmounted]
  /\ UNCHANGED <<storeVars, authVars>>

\* The effect of ProfilesTable and of AddProfileModal: load the account's
\* profiles when there is an account, nothing otherwise.
PageEffect ==
  /\ PagePending
  /\ IF Truthy(AccountId)
       THEN EnsureLoaded(AccountId, now, TRUE)
       ELSE UNCHANGED storeVars
  /\ ui' = [ui EXCEPT !.page = Mounted(PageDeps)]
  /\ UNCHANGED authVars

\* The "Use" button of a row of ProfilesTable.
UseProfile(id) ==
  /\ EffectsFlushed
  /\ ui.page.mounted
  /\ id \in ShownIds
  /\ currentProfileId # id
  /\ SetCurrentProfile(id, now, TRUE)
  /\ UNCHANGED <<authVars, ui>>

\* AddProfileModal's onSubmit for a new profile.
SubmitProfile(r) ==
  /\ EffectsFlushed
  /\ ui.page.mounted
  /\ Truthy(AccountId)
  /\ Len(profiles) < MaxProfiles
  /\ AddProfile(AccountId, FormData(AccountId), r, now, now, now, now, TRUE)
  /\ UNCHANGED <<authVars, ui>>

\* The user signs in, signs out, or the application checks the session at
\* startup, one call at a time; the calls go on as the provider answers.
PageNext ==
  \/ MountGate
  \/ UnmountGate
  \/ GateEffect
  \/ MountPage
  \/ UnmountPage
  \/ PageEffect
  \/ \E id \in ShownIds : UseProfile(id)
  \/ \E r \in RandomSuffixes : SubmitProfile(r)
  \/ EffectsFlushed /\ calls = EmptyBag /\ CheckSession
  \/ \E c \in BagToSet(calls) : GetSessionReturns(c)
  \/ \E c \in BagToSet(calls) : CheckSessionSet(c)
  \/ \E email \in Emails : EffectsFlushed /\ calls = EmptyBag /\ Login(email)
  \/ \E c \in BagToSet(calls) : SignInReturns(c)
  \/ \E c \in BagToSet(calls) : LoginSet(c)
  \/ \E c \in BagToSet(calls) : FindById(c)
  \/ \E c \in BagToSet(calls) : FindByUserId(c)
  \/ \E c \in BagToSet(calls) : FindByEmail(c)
  \/ EffectsFlushed /\ calls = EmptyBag /\ Logout
  \/ \E c \in BagToSet(calls) : SignOutReturns(c)

\* Nothing rendered yet, nobody signed in to the stores; the browser may hold
\* a session from an earlier visit; each account has its accounts row, keyed
\* by the user's id or linked by user_id.
PageInit ==
  /\ ProfilesInit({[k \in StorageKeys |-> RawNone]})
  /\ session = NullObject
  /\ user = NullObject
  /\ account = NullObject
  /\ isAuthenticated = FALSE
  /\ provider \in {NullObject} \cup ProviderSessions
  /\ accounts = {RowById, RowByUserId}
  /\ calls = EmptyBag
  /\ authLast = Event("init", "init", "return", Undef, NullObject)
  /\ ui = NothingMounted

PageSpec == PageInit /\ [][PageNext]_vars

(* ------------------------------- claims -------------------------------- *)

\* What is in memory differs from what the loaded account's item holds.
MemoryAheadOfStorage ==
  /\ loadedForUserId # Null
  /\ LET stored == loadFromStorage(storage, loadedForUserId) IN
       stored.isNull \/ stored.value.profiles # profiles
                     \/ stored.value.currentProfileId # currentProfileId

\* C1: ensureLoaded(A), called while loadedForUserId = A, leaves profiles,
\* currentProfileId and loadedForUserId as they are and makes no localStorage
\* call, read or write; so does the second of two ensureLoaded(A) calls in
\* succession, whatever the first did.
C1_IdempotentHydration ==
  [][(/\ last'.op = "ensureLoaded"
      /\ \/ loadedForUserId = last'.userId
         \/ (last.op = "ensureLoaded" /\ last.userId = last'.userId))
     => /\ profiles' = profiles
        /\ currentProfileId' = currentProfileId
        /\ loadedForUserId' = loadedForUserId
        /\ storage' = storage
        /\ io' = <<>>]_vars

\* ensureLoaded(A) has just run on an account already loaded whose in-memory
\* state holds edits the account's item does not.
C1_Witness ==
  /\ last.op = "ensureLoaded"
  /\ last.preLoaded = last.userId
  /\ loadedForUserId = last.userId
  /\ Len(profiles) > 0
  /\ MemoryAheadOfStorage

\* C2: an addProfile call appends the profile it returns; when currentProfileId
\* was null it becomes that profile's id, otherwise it stays as it was.
C2_DefaultSelection ==
  [][last'.op = "addProfile"
     => /\ Len(last'.ret) = 1
        /\ profiles' = Append(profiles, last'.ret[1])
        /\ currentProfileId = Null => currentProfileId' = last'.ret[1].id
        /\ currentProfileId # Null => currentProfileId' = currentProfileId]_vars

\* A later addProfile has run: the selection is still the first profile, not
\* the one just created.
C2_Witness ==
  /\ last.op = "addProfile"
  /\ Len(profiles) >= 2
  /\ last.preCurrent = profiles[1].id
  /\ currentProfileId = profiles[1].id
  /\ profiles[Len(profiles)] = last.ret[1]
  /\ last.ret[1].id # currentProfileId

\* The elements of ps whose id is not id, in the order of ps.
RECURSIVE Without(_, _)
Without(ps, id) ==
  IF ps = <<>> THEN <<>>
  ELSE IF Head(ps).id = id THEN Without(Tail(ps), id)
       ELSE <<Head(ps)>> \o Without(Tail(ps), id)

\* C3: removeProfile(accountId, id) leaves the profiles with another id, in
\* their order; when id was the selection, the selection becomes the id of the
\* first of them, or null when none is left; otherwise it stays as it was.
C3_SelectionFallback ==
  [][last'.op = "removeProfile"
     => LET rest == Without(profiles, last'.id) IN
        /\ profiles' = rest
        /\ currentProfileId = last'.id =>
             currentProfileId' = IF rest = <<>> THEN Null ELSE rest[1].id
        /\ currentProfileId # last'.id => currentProfileId' = currentProfileId]_vars

\* The selected profile has been removed from a collection of three and the
\* selection fell back to the first of the two that remain.
C3_Witness ==
  /\ last.op = "removeProfile"
  /\ last.hit
  /\ last.id = last.preCurrent
  /\ Len(profiles) = 2
  /\ profiles[1].id # profiles[2].id
  /\ currentProfileId = profiles[1].id

\* Reading a key of an object: undefined when the key is absent; the two
\* timestamps are read as -1 when absent.
TimeFields == {"createdAt", "updatedAt"}

Read(obj, f) ==
  IF f \in TimeFields THEN (IF f \in DOMAIN obj THEN obj[f] ELSE -1) ELSE Get(obj, f)

\* Equal field for field: every key reads the same in both.
SameProfile(p, q) == \A f \in StringFields \cup TimeFields : Read(p, f) = Read(q, f)

SameSnapshot(a, b) ==
  /\ Len(a.profiles) = Len(b.profiles)
  /\ \A i \in 1..Len(a.profiles) : SameProfile(a.profiles[i], b.profiles[i])
  /\ a.currentProfileId = b.currentProfileId
  /\ a.updatedAt = b.updatedAt

\* C4: once save(A, S) has gone through, load(A) returns a snapshot equal to S
\* field for field; and a save under A leaves what load returns for every
\* other account as it was (so the equality lasts until A's key is written).
C4_RoundTrip ==
  [][last'.op = "save"
     => /\ last'.ok =>
             LET loaded == loadFromStorage(storage', last'.userId) IN
             /\ ~loaded.raised
             /\ ~loaded.isNull
             /\ SameSnapshot(loaded.value, last'.payload)
        /\ \A other \in Users \ {last'.userId} :
             loadFromStorage(storage', other) = loadFromStorage(storage, other)]_vars

\* A snapshot holding a profile with an undefined optional field has been
\* saved (the stored text leaves the key out) while the other account holds a
\* snapshot of its own.
C4_Witness ==
  /\ last.op = "save"
  /\ last.ok
  /\ Len(last.payload.profiles) > 0
  /\ loadFromStorage(storage, last.userId).value # last.payload
  /\ \E other \in Users \ {last.userId} :
       LET theirs == loadFromStorage(storage, other) IN
       ~theirs.isNull /\ theirs.value.profiles # last.payload.profiles

\* Items loadFromStorage must answer with null: no item, text that is not
\* JSON, JSON whose profiles is not an array (and the empty text, JSON null).
MalformedKinds == {"none", "empty", "garbage", "null", "noarray"}

Malformed(st, userId) == st[storageKey(userId)].kind \in MalformedKinds

LoadsAbsent(st) ==
  \A u \in Users : Malformed(st, u) => loadFromStorage(st, u) = AbsentResult

\* C5 as stated: load answers null without raising on a missing or malformed
\* item, and every ensureLoaded(accountId) on such an item ends with an empty
\* collection, no selection and loadedForUserId = accountId.
C5_AsStated ==
  [][/\ LoadsAbsent(storage)
     /\ (last'.op = "ensureLoaded" /\ Malformed(storage, last'.userId))
        => /\ profiles' = <<>>
           /\ currentProfileId' = Null
           /\ loadedForUserId' = last'.userId]_vars

\* C5, amended: load answers null without raising on a missing or malformed
\* item, and ensureLoaded(accountId) on such an item, called while accountId is
\* not the loaded account, ends with an empty collection, no selection and
\* loadedForUserId = accountId.
C5_MalformedTolerance ==
  [][/\ LoadsAbsent(storage)
     /\ (/\ last'.op = "ensureLoaded"
         /\ Malformed(storage, last'.userId)
         /\ loadedForUserId # last'.userId)
        => /\ profiles' = <<>>
           /\ currentProfileId' = Null
           /\ loadedForUserId' = last'.userId]_vars

\* ensureLoaded has just found text that is not JSON, started empty, and its
\* baseline write failed, so the item is still there.
C5_Witness ==
  /\ last.op = "ensureLoaded"
  /\ last.preLoaded # last.userId
  /\ storage[storageKey(last.userId)].kind = "garbage"
  /\ io = <<GetItem(last.userId), SetItem(last.userId, FALSE)>>
  /\ profiles = <<>>
  /\ currentProfileId = Null
  /\ loadedForUserId = last.userId

\* C7: in every reachable state of the auth store, whatever the interleaving
\* of checkSession, login, logout and updateAccount calls, isAuthenticated is
\* true exactly when session is non-null.
C7_AuthenticatedIffSession == isAuthenticated <=> session # NullObject

\* A login finished signed in while another call was still in flight.
C7_Witness ==
  /\ isAuthenticated
  /\ session # NullObject
  /\ authLast.op = "login"
  /\ authLast.outcome = "return"
  /\ \E c \in BagToSet(calls) : c.op \in {"logout", "checkSession", "updateAccount"}

\* C6: when the provider reported a session and the account resolution came
\* back absent, the final set of checkSession and of login leaves
\* isAuthenticated true, session and user those of the provider, account null;
\* login returns true.
C6_AuthWithoutAccount ==
  [][\A c \in BagToSet(calls) :
       (/\ c.op \in {"checkSession", "login"}
        /\ c.pc = "set"
        /\ c.row = NullObject
        /\ calls' = calls (-) SetToBag({c}))
       => /\ isAuthenticated'
          /\ session' = c.sess
          /\ session' # NullObject
          /\ user' = c.sess.user
          /\ account' = NullObject
          /\ authLast'.op = c.op
          /\ authLast'.outcome = "return"
          /\ c.op = "login" => authLast'.ret = TRUE]_vars

\* A login ended signed in with no account row resolved.
C6_Witness ==
  /\ authLast.op = "login"
  /\ authLast.pc = "set"
  /\ authLast.row = NullObject
  /\ authLast.ret = TRUE
  /\ isAuthenticated
  /\ session \in ProviderSessions
  /\ user = session.user
  /\ account = NullObject

\* C8 as stated: the profile addProfile(A, data) returns has accountId = A.
C8_AccountIdIsArgument ==
  [][last'.op = "addProfile" => Get(last'.ret[1], "accountId") = last'.userId]_vars

\* C9 as stated: updateProfile leaves every profile it matches with an
\* updatedAt greater than before.
C9_StrictlyGreater ==
  [][last'.op = "updateProfile"
     => \A i \in 1..Len(profiles) :
          profiles[i].id = last'.id => profiles'[i].updatedAt > profiles[i].updatedAt]_vars

\* C9, amended: updateProfile stamps every profile it matches with a clock
\* reading taken during the call, which is not less than its updatedAt before.
C9_NotLess ==
  [][last'.op = "updateProfile"
     => /\ Len(profiles') = Len(profiles)
        /\ \A i \in 1..Len(profiles) :
             profiles[i].id = last'.id
             => /\ profiles'[i].updatedAt >= profiles[i].updatedAt
                /\ profiles'[i].updatedAt >= now
                /\ profiles'[i].updatedAt <= now']_vars

\* A profile has been updated at a later reading than the one it was created at.
C9_Witness ==
  /\ last.op = "updateProfile"
  /\ last.hit
  /\ \E i \in 1..Len(profiles) :
       /\ profiles[i].id = last.id
       /\ profiles[i].updatedAt > profiles[i].createdAt
       /\ profiles[i].updatedAt = now
       /\ Get(profiles[i], "licenseNumber") = "TX-12345"

\* C10 as stated: the profile addProfile creates has createdAt = updatedAt.
C10_CreatedEqualsUpdated ==
  [][last'.op = "addProfile" => last'.ret[1].createdAt = last'.ret[1].updatedAt]_vars

\* C11: updateProfile(accountId, id, changes) keeps the length and order of
\* the collection, currentProfileId and loadedForUserId; a profile with
\* another id is left as it is; a profile with that id keeps every field
\* that is neither named in changes nor updatedAt and takes the fields of
\* changes; when no profile has that id, profiles is unchanged.
C11_UpdateFrame ==
  [][last'.op = "updateProfile"
     => /\ Len(profiles') = Len(profiles)
        /\ currentProfileId' = currentProfileId
        /\ loadedForUserId' = loadedForUserId
        /\ \A i \in 1..Len(profiles) :
             IF profiles[i].id # last'.id THEN profiles'[i] = profiles[i]
             ELSE \E changes \in ChangesInputs :
                    LET touched == (DOMAIN changes) \cup {"updatedAt"} IN
                      /\ DOMAIN profiles'[i] = (DOMAIN profiles[i]) \cup touched
                      /\ \A f \in (DOMAIN profiles[i]) \ touched :
                           profiles'[i][f] = profiles[i][f]
                      /\ \A f \in (DOMAIN changes) \ {"updatedAt"} :
                           profiles'[i][f] = changes[f]
        /\ ~last'.hit => profiles' = profiles]_vars

\* updateProfile has run on one of several profiles: the one it named holds
\* the change, another one does not.
C11_Witness ==
  /\ last.op = "updateProfile"
  /\ last.hit
  /\ \E i, j \in 1..Len(profiles) :
       /\ profiles[i].id = last.id
       /\ Get(profiles[i], "licenseNumber") = LicenseChange.licenseNumber
       /\ profiles[j].id # last.id
       /\ Get(profiles[j], "licenseNumber") # LicenseChange.licenseNumber

\* The call c went on as d in this step.
WentOn(c, d) == d # c /\ calls' = (calls (-) SetToBag({c})) (+) SetToBag({d})

\* C12: findAccountRow tries accounts.id, then accounts.user_id, then
\* accounts.email, in that order; an attempt ends the search only with a row
\* it matched, and any attempt without one (no row, a returned error, a
\* raised exception) is followed by the next strategy; after the last one the
\* result is absent; the search never raises.
C12_FirstHitInOrder ==
  [][\A c \in BagToSet(calls) : \A d \in BagToSet(calls') :
       (c.pc \in {"byId", "byUserId", "byEmail"} /\ WentOn(c, d))
       => /\ c.pc = "byId" =>
               \/ d.pc = "set" /\ d.row \in Matches("id", c.sess.user.id)
               \/ d.pc = "byUserId"
          /\ c.pc = "byUserId" =>
               \/ d.pc = "set" /\ d.row \in Matches("user_id", c.sess.user.id)
               \/ d.pc = "byEmail"
               \/ d.pc = "set" /\ d.row = NullObject /\ ~Truthy(Get(c.sess.user, "email"))
          /\ c.pc = "byEmail" =>
               \/ d.pc = "set" /\ d.row \in Matches("email", c.sess.user.email)
               \/ d.pc = "set" /\ d.row = NullObject]_vars

\* The call c is over with this step.
Over(c) == calls' = calls (-) SetToBag({c})

\* C13: whenever a logout call finishes, however signOut() came back
\* (success, a returned error, a raised exception), session, user and account
\* are null and isAuthenticated is false.
C13_LogoutClears ==
  [][\A c \in BagToSet(calls) :
       (c.op = "logout" /\ Over(c))
       => /\ session' = NullObject
          /\ user' = NullObject
          /\ account' = NullObject
          /\ isAuthenticated' = FALSE]_vars

\* C14: when signInWithPassword comes back with an error, login throws it,
\* the call is over without any account lookup, and session, user, account
\* and isAuthenticated are what they were.
C14_LoginErrorPropagates ==
  [][(calls' # calls /\ authLast'.op = "login" /\ authLast'.pc = "signIn"
        /\ authLast'.got = "error")
     => /\ authLast'.outcome = "throw"
        /\ authLast'.ret = "error"
        /\ \E c \in BagToSet(calls) : c.op = "login" /\ c.pc = "signIn" /\ Over(c)
        /\ UNCHANGED <<session, user, account, isAuthenticated>>]_vars

\* A login failed on the provider's error while the store was signed in: it
\* still is.
C14_Witness ==
  /\ authLast.op = "login"
  /\ authLast.pc = "signIn"
  /\ authLast.got = "error"
  /\ authLast.outcome = "throw"
  /\ isAuthenticated
  /\ account # NullObject

\* C15: updateAccount throws "Not authenticated" when user is null, else
\* "Account not loaded" when account is null, sending no update in either
\* case; these failures and a failed update leave session, user, account and
\* isAuthenticated as they were; a successful update replaces account, and
\* only account, by the returned row mapped by mapRowToAccount.
C15_UpdateAccountErrors ==
  [][(storeVars' = storeVars /\ authLast'.op = "updateAccount")
     => IF authLast'.pc = "call"
        THEN /\ UNCHANGED <<session, user, account, isAuthenticated, accounts>>
             /\ user = NullObject =>
                  /\ authLast'.outcome = "throw"
                  /\ authLast'.ret = "Not authenticated"
                  /\ calls' = calls
             /\ (user # NullObject /\ account = NullObject) =>
                  /\ authLast'.outcome = "throw"
                  /\ authLast'.ret = "Account not loaded"
                  /\ calls' = calls
             /\ (user # NullObject /\ account # NullObject) =>
                  authLast'.outcome = "pending"
        ELSE /\ UNCHANGED <<session, user, isAuthenticated>>
             /\ authLast'.outcome \in {"throw", "return"}
             /\ authLast'.outcome = "throw" => UNCHANGED <<account, accounts>>
             /\ authLast'.outcome = "return" =>
                  /\ authLast'.row \in accounts'
                  /\ account' = mapRowToAccount(authLast'.row)
                  /\ authLast'.ret = account']_vars

\* updateAccount was refused for want of a loaded account while a user is
\* signed in.
C15_Witness ==
  /\ authLast.op = "updateAccount"
  /\ authLast.outcome = "throw"
  /\ authLast.pc = "call"
  /\ authLast.ret = "Account not loaded"
  /\ isAuthenticated
  /\ user # NullObject
  /\ account = NullObject

\* The setItem calls in a log of localStorage calls.
Writes(log) == SelectSeq(log, LAMBDA e : e.call = "setItem")

\* C16: an operation whose storage write fails completes (addProfile
\* returning the created profile), writes once only, leaves every stored item
\* as it was, and changes memory as it does when the write goes through:
\* ensureLoaded (on a miss) to the empty collection of the account,
\* setCurrentProfile to the given selection, addProfile by appending the
\* profile and selecting it if nothing was selected, updateProfile by merging
\* the changes into the matching profiles, removeProfile by dropping the
\* matching profiles with the selection falling back to the first left.
C16_WriteFailuresAbsorbed ==
  [][(Writes(io') # <<>> /\ \E k \in 1..Len(io') : ~io'[k].ok /\ last'.op # "save")
     => /\ storage' = storage
        /\ Len(Writes(io')) = 1
        /\ last'.op \in {"ensureLoaded", "setCurrentProfile", "addProfile",
                         "updateProfile", "removeProfile"}
        /\ last'.op = "ensureLoaded" =>
             /\ loadFromStorage(storage, last'.userId).isNull
             /\ profiles' = <<>>
             /\ currentProfileId' = Null
             /\ loadedForUserId' = last'.userId
        /\ last'.op = "setCurrentProfile" =>
             /\ currentProfileId' = last'.id
             /\ UNCHANGED <<profiles, loadedForUserId>>
        /\ last'.op = "addProfile" =>
             /\ Len(last'.ret) = 1
             /\ profiles' = Append(profiles, last'.ret[1])
             /\ currentProfileId' =
                  IF currentProfileId = Null THEN last'.ret[1].id ELSE currentProfileId
             /\ loadedForUserId' = last'.userId
        /\ last'.op = "updateProfile" =>
             /\ Len(profiles') = Len(profiles)
             /\ UNCHANGED <<currentProfileId, loadedForUserId>>
             /\ \A i \in 1..Len(profiles) :
                  IF profiles[i].id # last'.id THEN profiles'[i] = profiles[i]
                  ELSE \E changes \in ChangesInputs :
                         \A f \in DOMAIN changes : profiles'[i][f] = changes[f]
        /\ last'.op = "removeProfile" =>
             LET rest == Without(profiles, last'.id) IN
               /\ profiles' = rest
               /\ currentProfileId' =
                    IF currentProfileId # last'.id THEN currentProfileId
                    ELSE IF rest = <<>> THEN Null ELSE rest[1].id
               /\ UNCHANGED loadedForUserId]_vars

\* addProfile has run with its write failing: the profile is in memory, the
\* item still holds the snapshot written before.
C16_Witness ==
  /\ last.op = "addProfile"
  /\ io = <<SetItem(last.userId, FALSE)>>
  /\ Len(profiles) = 2
  /\ profiles[2] = last.ret[1]
  /\ storage[storageKey(last.userId)].kind = "snapshot"
  /\ Len(storage[storageKey(last.userId)].value.profiles) = 1

\* C17: setCurrentProfile(p) sets currentProfileId to p and leaves profiles
\* and loadedForUserId as they are; with an account loaded it writes one item,
\* the loaded account's, holding the current profiles and the selection p,
\* and leaves every other item alone; with no account loaded it makes no
\* localStorage call.
C17_SetCurrentFrame ==
  [][last'.op = "setCurrentProfile"
     => /\ currentProfileId' = last'.id
        /\ UNCHANGED <<profiles, loadedForUserId>>
        /\ loadedForUserId = Null => (io' = <<>> /\ storage' = storage)
        /\ loadedForUserId # Null =>
             /\ io' = <<SetItem(loadedForUserId, TRUE)>>
             /\ \A u \in Users \ {loadedForUserId} :
                  storage'[storageKey(u)] = storage[storageKey(u)]
             /\ LET stored == loadFromStorage(storage', loadedForUserId) IN
                  /\ ~stored.isNull
                  /\ stored.value.currentProfileId = last'.id
                  /\ Len(stored.value.profiles) = Len(profiles)
                  /\ \A i \in 1..Len(profiles) :
                       SameProfile(stored.value.profiles[i], profiles[i])]_vars

\* setCurrentProfile has moved the selection to the second profile of the
\* loaded account, whose item holds it, while the other account has an item
\* of its own.
C17_Witness ==
  /\ last.op = "setCurrentProfile"
  /\ loadedForUserId # Null
  /\ Len(profiles) = 2
  /\ last.id = profiles[2].id
  /\ last.preCurrent # last.id
  /\ currentProfileId = last.id
  /\ loadFromStorage(storage, loadedForUserId).value.currentProfileId = last.id
  /\ \E u \in Users \ {loadedForUserId} : storage[storageKey(u)].kind = "snapshot"

\* C18: reset() empties profiles, sets currentProfileId and loadedForUserId
\* to null, and touches no stored item; the ensureLoaded(A) that follows it,
\* for any account, reads A's item and ends with the profiles and selection
\* of A's stored snapshot, or empty with no selection when A has none, and
\* with loadedForUserId = A.
C18_ResetThenHydrate ==
  [][/\ last'.op = "reset" =>
          /\ profiles' = <<>>
          /\ currentProfileId' = Null
          /\ loadedForUserId' = Null
          /\ storage' = storage
          /\ io' = <<>>
     /\ (last.op = "reset" /\ last'.op = "ensureLoaded") =>
          LET stored == loadFromStorage(storage, last'.userId) IN
          /\ Len(io') >= 1
          /\ io'[1] = GetItem(last'.userId)
          /\ loadedForUserId' = last'.userId
          /\ stored.isNull => (profiles' = <<>> /\ currentProfileId' = Null)
          /\ ~stored.isNull =>
               /\ profiles' = stored.value.profiles
               /\ currentProfileId' = stored.value.currentProfileId]_vars

\* After a reset, ensureLoaded has brought back an account's stored profiles
\* and selection.
C18_Witness ==
  /\ last.op = "ensureLoaded"
  /\ last.preLoaded = Null
  /\ io = <<GetItem(last.userId)>>
  /\ loadedForUserId = last.userId
  /\ Len(profiles) = 2
  /\ currentProfileId = profiles[2].id

\* C19: while the callers pass the loaded account and every write goes
\* through, whenever an account is loaded its item holds a snapshot whose
\* profiles and currentProfileId are those in memory.
C19_MemoryStorageAgreement ==
  loadedForUserId # Null =>
    LET stored == loadFromStorage(storage, loadedForUserId) IN
      /\ ~stored.isNull
      /\ stored.value.currentProfileId = currentProfileId
      /\ Len(stored.value.profiles) = Len(profiles)
      /\ \A i \in 1..Len(profiles) : SameProfile(stored.value.profiles[i], profiles[i])

\* An account whose item was not JSON is loaded after the other one was
\* edited: both items now hold snapshots, the loaded one the empty baseline.
C19_Witness ==
  /\ last.op = "ensureLoaded"
  /\ ~last.hit
  /\ io = <<GetItem(last.userId), SetItem(last.userId, TRUE)>>
  /\ loadedForUserId = last.userId
  /\ profiles = <<>>
  /\ storage[storageKey(loadedForUserId)] = JsonStringify(
       [profiles |-> <<>>, currentProfileId |-> Null, updatedAt |-> now])
  /\ \E u \in Users \ {loadedForUserId} :
       /\ storage[storageKey(u)].kind = "snapshot"
       /\ Len(storage[storageKey(u)].value.profiles) = MaxProfiles

\* C20: nothing cancels a suspended call. A checkSession or login that was
\* waiting for its account resolution while a logout ended the provider's
\* session and cleared the store still makes its final set: the store then
\* holds the session of the call with isAuthenticated true. An updateAccount
\* whose update settles after the store was cleared still sets account: the
\* store then holds an account with a null session.
C20_StaleWriteAfterLogout ==
  [][\A c \in BagToSet(calls) :
       /\ (/\ c.op \in {"checkSession", "login"}
           /\ c.pc = "set"
           /\ Over(c)
           /\ provider = NullObject
           /\ session = NullObject)
          => /\ session' = c.sess
             /\ session' # NullObject
             /\ user' = c.sess.user
             /\ isAuthenticated'
       /\ (/\ c.op = "updateAccount"
           /\ Over(c)
           /\ authLast'.outcome = "return"
           /\ session = NullObject)
          => /\ account' # NullObject
             /\ session' = NullObject
             /\ ~isAuthenticated']_vars

\* A login has made its final set after a logout ended the provider's session:
\* the store is signed in, the provider holds no session.
C20_Witness ==
  /\ authLast.op = "login"
  /\ authLast.pc = "set"
  /\ authLast.outcome = "return"
  /\ provider = NullObject
  /\ calls = EmptyBag
  /\ session # NullObject
  /\ user # NullObject
  /\ isAuthenticated

\* The profiles of the snapshot stored for an account: what ensureLoaded would
\* bring into memory, none when the item is absent or malformed.
StoredProfiles(u) ==
  LET stored == loadFromStorage(storage, u) IN
    IF stored.isNull THEN <<>> ELSE stored.value.profiles

\* C22: a profile belongs to one account for its whole lifetime. Every profile
\* is created by addProfile(A, ...) with accountId A, and the statement is that
\* the snapshot stored under the key of an account holds only profiles created
\* for that account, and that the collection in memory holds only profiles
\* created for the account it is loaded for.
C22_OneAccountPerProfile ==
  \A u \in Users :
    /\ \A i \in 1..Len(StoredProfiles(u)) : StoredProfiles(u)[i].accountId = u
    /\ loadedForUserId = u =>
         \A i \in 1..Len(profiles) : profiles[i].accountId = u

\* C23: no silent loss of persisted profiles. With every storage write
\* succeeding, a profile of the snapshot stored for an account is still in
\* that snapshot after every step, unless the step is removeProfile for that
\* account and that id: whether the account is loaded or not.
C23_NoSilentLoss ==
  [][\A u \in Users :
       \A id \in ProfileIds(StoredProfiles(u)) :
         \/ id \in ProfileIds(StoredProfiles(u))'
         \/ /\ last'.op = "removeProfile"
            /\ last'.userId = u
            /\ last'.id = id]_vars

\* C21: reset() is invoked whenever the owning session ends. Whenever the
\* presentation layer has run its pending effects, which is when the next
\* operation can begin, and the Session/Account Store is unauthenticated, the
\* profiles store is not left loaded for an account with that account's
\* profiles in memory.
C21_ResetOnSessionEnd ==
  (EffectsFlushed /\ ~isAuthenticated) =>
     ~(loadedForUserId # Null /\ profiles # <<>>)

====
